---- MODULE Spec2Model ----
(***************************************************************************)
(* Booking management API (providers and bookings): the service layer's    *)
(* business rules, the repositories' store operations and the routes'      *)
(* mapping of outcomes to HTTP status codes, over one shared store.        *)
(*                                                                         *)
(* Time is a discrete clock: `now` is the current reading of               *)
(* datetime.utcnow().  A commit that writes a row (INSERT or UPDATE)       *)
(* takes longer than the clock's resolution, so it advances `now` by one   *)
(* tick.  Strings that the code strips are sequences of characters.        *)
(*                                                                         *)
(* `last` is the response to the latest completed request together with    *)
(* what the request saw: its body, the clock reading it evaluated, the     *)
(* provider it looked up and the store it ran against.                     *)
(***************************************************************************)
EXTENDS Integers, Sequences, FiniteSets

VARIABLES providers, bookings, nextProviderId, nextBookingId, now, inflight, last

vars == <<providers, bookings, nextProviderId, nextBookingId, now, inflight, last>>

(* ------------------------------ bounds -------------------------------- *)

MaxProviders == 1

MaxBookings == 1

MaxTime == 4

(* ------------------------------ values -------------------------------- *)

NULL == "NULL"

NoRecord == [id |-> 0]

NoVals == [f \in {} |-> NULL]

\* A PATCH body after validation: the fields given a value, and the fields
\* given an explicit null.  Both kinds are "set" for model_dump(exclude_unset).
Payload(vals, nulls) == [vals |-> vals, nulls |-> nulls]

NoData == Payload(NoVals, {})

FieldsSet(data) == (DOMAIN data.vals) \cup data.nulls

PENDING == "pending"

CONFIRMED == "confirmed"

COMPLETED == "completed"

CANCELLED == "cancelled"

BookingStatus == {PENDING, CONFIRMED, COMPLETED, CANCELLED}

\* Columns declared nullable=False that an update payload can name.
BookingNotNull == {"client_name", "client_phone", "scheduled_at", "status"}

ProviderNotNull == {"name", "sector", "is_active"}

\* Columns declared nullable=True.
BookingNullable == {"client_email", "service_type", "notes"}

ProviderNullable == {"phone", "email", "address"}

BookingCreateFields ==
    {"provider_id", "client_name", "client_phone", "client_email",
     "service_type", "scheduled_at", "notes"}

BookingUpdateFields ==
    {"client_name", "client_phone", "client_email", "service_type",
     "scheduled_at", "status", "notes"}

ProviderCreateFields == {"name", "sector", "phone", "email", "address"}

ProviderUpdateFields == {"name", "sector", "phone", "email", "address", "is_active"}

(* ------------------------------ helpers ------------------------------- *)

Put(f, k, v) == [x \in (DOMAIN f) \cup {k} |-> IF x = k THEN v ELSE f[x]]

Remove(f, k) == [x \in (DOMAIN f) \ {k} |-> f[x]]

RECURSIVE LStrip(_)
LStrip(s) == IF s # <<>> /\ Head(s) = " " THEN LStrip(Tail(s)) ELSE s

RECURSIVE RStrip(_)
RStrip(s) ==
    IF s # <<>> /\ s[Len(s)] = " " THEN RStrip(SubSeq(s, 1, Len(s) - 1)) ELSE s

\* str.strip()
Strip(s) == RStrip(LStrip(s))

\* pydantic: a model keeps its declared fields and ignores any other key.
ModelFields(raw, fields) == [f \in fields |-> raw[f]]

\* A plausible slip: model_dump() without exclude_unset, which also writes
\* the schema's None default over every nullable column the body left out.
ApplyUpdateDumpAll(rec, data, nullable) ==
    [f \in DOMAIN rec |->
        IF f \in DOMAIN data.vals THEN data.vals[f]
        ELSE IF f \in data.nulls \cup nullable THEN NULL
        ELSE rec[f]]

\* model_dump(exclude_unset=True) followed by setattr for every item.
ApplyUpdate(rec, data, nullable) ==
    [f \in DOMAIN rec |->
        IF f \in DOMAIN data.vals THEN data.vals[f]
        ELSE IF f \in data.nulls THEN NULL
        ELSE rec[f]]

\* The commit of a dirty object: a NOT NULL column set to null fails.
ViolatesNotNull(data, cols) == data.nulls \cap cols # {}

\* The unit of work emits an UPDATE, and so runs onupdate=datetime.utcnow,
\* only when some attribute has a net change.
Flush(old, new, t) == IF new = old THEN old ELSE [new EXCEPT !.updated_at = t]

Store == [providers |-> providers, bookings |-> bookings]

Response(op, id, data, code, err, provider) ==
    [op |-> op, id |-> id, data |-> data, code |-> code, err |-> err,
     at |-> now, provider |-> provider, pre |-> Store]

\* A response that carries the record the handler returned.
WithResult(r, res) ==
    [f \in DOMAIN r \cup {"result"} |-> IF f = "result" THEN res ELSE r[f]]

\* ProviderRepository.get_by_id
GetProvider(id) == IF id \in DOMAIN providers THEN providers[id] ELSE NoRecord

\* BookingRepository.get_by_id
GetBooking(id) == IF id \in DOMAIN bookings THEN bookings[id] ELSE NoRecord

(* ------------------------------ providers ----------------------------- *)

\* A plausible slip: the rules test the strings without stripping them.
RegisterProviderErrorNoStrip(data) ==
    IF data.name = <<>> THEN "name_empty"
    ELSE IF data.sector = <<>> THEN "sector_empty"
    ELSE "none"

\* ProviderService.register_provider: the two rule checks, in order.
RegisterProviderError(data) ==
    IF Strip(data.name) = <<>> THEN "name_empty"
    ELSE IF Strip(data.sector) = <<>> THEN "sector_empty"
    ELSE "none"

\* ProviderRepository.create: Provider(**data.model_dump()) and column defaults.
NewProvider(data, id, t) ==
    [id |-> id, name |-> data.name, sector |-> data.sector, phone |-> data.phone,
     email |-> data.email, address |-> data.address, is_active |-> TRUE,
     created_at |-> t, updated_at |-> t]

ProviderBody(n, s) ==
    [name |-> n, sector |-> s, phone |-> NULL, email |-> NULL, address |-> NULL]

ProviderInputs ==
    {ProviderBody(<<"a">>, <<"m">>), ProviderBody(<<" ">>, <<"m">>),
     ProviderBody(<<"a">>, <<" ">>)}

\* POST /providers
RegisterProvider(raw) ==
    LET data == ModelFields(raw, ProviderCreateFields)
        e == RegisterProviderError(data)
    IN  IF e # "none"
        THEN /\ last' = Response("register_provider", 0, raw, 400, e, NoRecord)
             /\ UNCHANGED <<providers, bookings, nextProviderId, nextBookingId, now, inflight>>
        ELSE /\ nextProviderId <= MaxProviders
             /\ now < MaxTime
             /\ providers' = Put(providers, nextProviderId, NewProvider(data, nextProviderId, now))
             /\ nextProviderId' = nextProviderId + 1
             /\ now' = now + 1
             /\ last' = Response("register_provider", nextProviderId, raw, 201, "none", NoRecord)
             /\ UNCHANGED <<bookings, nextBookingId, inflight>>

ProviderUpdateInputs ==
    { NoData,
      Payload([is_active |-> FALSE], {}),
      Payload([is_active |-> TRUE], {}),
      Payload(NoVals, {"is_active"}),
      Payload([name |-> <<" ">>, phone |-> "1"], {}) }

\* ProviderRepository.update: None when the id is unknown, else the record
\* with the payload's fields set and the commit's outcome.
ProviderRepoUpdate(id, data) ==
    IF id \notin DOMAIN providers THEN [found |-> FALSE, ok |-> FALSE, rec |-> NoRecord]
    ELSE LET new == ApplyUpdate(providers[id], data, ProviderNullable)
         IN  IF ViolatesNotNull(data, ProviderNotNull)
             THEN [found |-> TRUE, ok |-> FALSE, rec |-> providers[id]]
             ELSE [found |-> TRUE, ok |-> TRUE, rec |-> Flush(providers[id], new, now)]

\* ProviderService.update_provider behind PATCH /providers/{id}.
UpdateProvider(id, data) ==
    LET r == ProviderRepoUpdate(id, data)
    IN  /\ IF ~r.found
           THEN /\ last' = Response("update_provider", id, NoData, 404, "not_found", NoRecord)
                /\ UNCHANGED <<providers, now>>
           ELSE IF ~r.ok
           THEN /\ last' = Response("update_provider", id, data, 500, "integrity_error", NoRecord)
                /\ UNCHANGED <<providers, now>>
           ELSE /\ r.rec # providers[id] => now < MaxTime
                /\ providers' = [providers EXCEPT ![id] = r.rec]
                /\ now' = IF r.rec # providers[id] THEN now + 1 ELSE now
                /\ last' = Response("update_provider", id, data, 200, "none", NoRecord)
        /\ UNCHANGED <<bookings, nextProviderId, nextBookingId, inflight>>

\* Provider.bookings (the backref of Booking.provider): the rows whose
\* provider_id the unit of work sets to NULL when the provider is deleted,
\* which the NOT NULL column rejects.
Dependents(id) == {b \in DOMAIN bookings : bookings[b].provider_id = id}

\* ProviderService.delete_provider behind DELETE /providers/{id}.
DeleteProvider(id) ==
    /\ IF id \notin DOMAIN providers
       THEN /\ last' = Response("delete_provider", id, NoData, 404, "not_found", NoRecord)
            /\ UNCHANGED providers
       ELSE IF Dependents(id) # {}
       THEN /\ last' = Response("delete_provider", id, NoData, 500, "integrity_error", NoRecord)
            /\ UNCHANGED providers
       ELSE /\ providers' = Remove(providers, id)
            /\ last' = Response("delete_provider", id, NoData, 204, "none", NoRecord)
    /\ UNCHANGED <<bookings, nextProviderId, nextBookingId, now, inflight>>

\* ProviderService.get_provider behind GET /providers/{id}.
ReadProvider(id) ==
    /\ last' = IF id \notin DOMAIN providers
               THEN Response("get_provider", id, NoData, 404, "not_found", NoRecord)
               ELSE WithResult(Response("get_provider", id, NoData, 200, "none", NoRecord),
                               providers[id])
    /\ UNCHANGED <<providers, bookings, nextProviderId, nextBookingId, now, inflight>>

(* ------------------------------ bookings ------------------------------ *)

\* A POST /bookings body; "status" is a key BookingCreate does not declare
\* (NULL: the caller sent none).
BookingBody(p, s, st) ==
    [provider_id |-> p, client_name |-> "Ann", client_phone |-> "555",
     client_email |-> NULL, service_type |-> NULL, scheduled_at |-> s,
     notes |-> NULL, status |-> st]

\* Bodies naming an issued or a never issued provider id, scheduled just
\* before, at and just after the clock reading t; and bodies that also
\* carry a status.
CreateInputs(t) ==
    { BookingBody(p, s, NULL) :
        p \in 1..nextProviderId, s \in {x \in {t - 1, t, t + 1} : x >= 0} }
    \cup { BookingBody(p, t + 1, CONFIRMED) : p \in DOMAIN providers }

\* A plausible slip: the time rule checked before the provider is looked up.
CreateBookingErrorTimeFirst(data, t) ==
    IF data.scheduled_at < t THEN "not_in_future"
    ELSE IF data.provider_id \notin DOMAIN providers THEN "provider_not_found"
    ELSE IF ~providers[data.provider_id].is_active THEN "provider_inactive"
    ELSE "none"

\* A plausible slip: the lookup's result is not tested.
CreateBookingErrorNoLookup(data, t) ==
    IF data.provider_id \in DOMAIN providers /\ ~providers[data.provider_id].is_active
    THEN "provider_inactive"
    ELSE IF data.scheduled_at < t THEN "not_in_future"
    ELSE "none"

\* A plausible slip: is_active is not tested.
CreateBookingErrorNoActive(data, t) ==
    IF data.provider_id \notin DOMAIN providers THEN "provider_not_found"
    ELSE IF data.scheduled_at < t THEN "not_in_future"
    ELSE "none"

\* BookingService.create_booking: the three rules, first failure wins.
CreateBookingError(data, t) ==
    IF data.provider_id \notin DOMAIN providers THEN "provider_not_found"
    ELSE IF ~providers[data.provider_id].is_active THEN "provider_inactive"
    ELSE IF data.scheduled_at < t THEN "not_in_future"
    ELSE "none"

\* A plausible slip: the caller's status key reaches the row.
InitialStatusFromBody(raw) == IF raw.status # NULL THEN raw.status ELSE PENDING

\* The status of a new row: BookingCreate has no status field, so the
\* column default applies.
InitialStatus(raw) == PENDING

\* BookingRepository.create: Booking(**data.model_dump()) and column defaults.
NewBooking(raw, id, t) ==
    LET data == ModelFields(raw, BookingCreateFields)
    IN  [id |-> id, provider_id |-> data.provider_id, client_name |-> data.client_name,
         client_phone |-> data.client_phone, client_email |-> data.client_email,
         service_type |-> data.service_type, scheduled_at |-> data.scheduled_at,
         status |-> InitialStatus(raw), notes |-> data.notes,
         created_at |-> t, updated_at |-> t]

\* A bookings table without the foreign key (SQLite with the pragma off).
ForeignKeyNotEnforced(raw) == TRUE

\* bookings.provider_id is ForeignKey("providers.id"): the INSERT is accepted
\* only if a provider row has that id.
ForeignKeyHolds(raw) == raw.provider_id \in DOMAIN providers

\* booking_repo.create: the INSERT, which the foreign key on provider_id
\* rejects when no provider row has that id.  `seen` is what the request
\* read before: the provider and the clock.
InsertBooking(raw, seen) ==
    IF ~ForeignKeyHolds(raw)
    THEN /\ last' = [Response("create_booking", 0, raw, 500, "integrity_error", seen.provider)
                        EXCEPT !.at = seen.at]
         /\ UNCHANGED <<bookings, nextBookingId, now>>
    ELSE /\ now < MaxTime
         /\ bookings' = Put(bookings, nextBookingId, NewBooking(raw, nextBookingId, now))
         /\ nextBookingId' = nextBookingId + 1
         /\ now' = now + 1
         /\ last' = [Response("create_booking", nextBookingId, raw, 201, "none", seen.provider)
                        EXCEPT !.at = seen.at]

\* A plausible slip: the unknown provider answered as a missing resource.
RuleViolationCodeUnknownAs404(e) == IF e = "provider_not_found" THEN 404 ELSE 400

\* The create_booking route: except ValueError -> HTTPException(400),
\* whichever rule raised it.
RuleViolationCode(e) == 400

\* BookingService.create_booking behind POST /bookings, as one step.
CreateBooking(raw) ==
    LET data == ModelFields(raw, BookingCreateFields)
        e == CreateBookingError(data, now)
        seen == [provider |-> GetProvider(data.provider_id), at |-> now]
    IN  IF e # "none"
        THEN /\ last' = Response("create_booking", 0, raw, RuleViolationCode(e), e, seen.provider)
             /\ UNCHANGED <<providers, bookings, nextProviderId, nextBookingId, now, inflight>>
        ELSE /\ nextBookingId <= MaxBookings
             /\ InsertBooking(raw, seen)
             /\ UNCHANGED <<providers, nextProviderId, inflight>>

\* create_booking up to the call of booking_repo.create: the provider is
\* read and the rules are checked.  No transaction spans this and the
\* INSERT, so other requests may commit in between.
CreateBookingCheck(raw) ==
    LET data == ModelFields(raw, BookingCreateFields)
        e == CreateBookingError(data, now)
        seen == [provider |-> GetProvider(data.provider_id), at |-> now]
    IN  /\ inflight = <<>>
        /\ IF e # "none"
           THEN /\ last' = Response("create_booking", 0, raw, RuleViolationCode(e), e, seen.provider)
                /\ UNCHANGED inflight
           ELSE /\ nextBookingId <= MaxBookings
                /\ inflight' = <<[raw |-> raw, seen |-> seen]>>
                /\ UNCHANGED last
        /\ UNCHANGED <<providers, bookings, nextProviderId, nextBookingId, now>>

\* The rest of that create_booking: booking_repo.create.
CreateBookingInsert ==
    /\ inflight # <<>>
    /\ InsertBooking(inflight[1].raw, inflight[1].seen)
    /\ inflight' = <<>>
    /\ UNCHANGED <<providers, nextProviderId>>

BookingUpdateInputs ==
    { NoData,
      Payload(NoVals, {"client_name"}),
      Payload([scheduled_at |-> 0], {"notes"}),
      Payload([status |-> CONFIRMED, notes |-> "n",
               id |-> 0, provider_id |-> 0, created_at |-> 0], {}) }
    \cup { Payload([status |-> s], {}) : s \in BookingStatus }

\* A plausible slip: a schema configured with extra="allow", whose dump
\* carries every key of the body to the repository's setattr loop.
BookingUpdateExtraAllowed(body) == body

\* The BookingUpdate schema: the fields it declares, given a value or an
\* explicit null; any other key of the body is ignored.
BookingUpdate(body) ==
    Payload([f \in (DOMAIN body.vals) \cap BookingUpdateFields |-> body.vals[f]],
            body.nulls \cap BookingUpdateFields)

\* A plausible slip: a transition table under which cancelled and completed
\* are terminal, so a payload moving the status out of them is refused.
BookingRepoUpdateTerminal(id, data) ==
    IF id \notin DOMAIN bookings THEN [found |-> FALSE, ok |-> FALSE, rec |-> NoRecord]
    ELSE LET new == ApplyUpdate(bookings[id], data, BookingNullable)
         IN  IF \/ ViolatesNotNull(data, BookingNotNull)
                \/ /\ bookings[id].status \in {CANCELLED, COMPLETED}
                   /\ new.status # bookings[id].status
             THEN [found |-> TRUE, ok |-> FALSE, rec |-> bookings[id]]
             ELSE [found |-> TRUE, ok |-> TRUE, rec |-> Flush(bookings[id], new, now)]

\* A plausible slip: the update re-applies the creation rules to the row it
\* is about to write and refuses it when the provider is no longer active
\* or the new scheduled_at is not in the future.
BookingRepoUpdateRechecked(id, data) ==
    IF id \notin DOMAIN bookings THEN [found |-> FALSE, ok |-> FALSE, rec |-> NoRecord]
    ELSE LET new == ApplyUpdate(bookings[id], data, BookingNullable)
         IN  IF \/ ViolatesNotNull(data, BookingNotNull)
                \/ CreateBookingError(new, now) # "none"
             THEN [found |-> TRUE, ok |-> FALSE, rec |-> bookings[id]]
             ELSE [found |-> TRUE, ok |-> TRUE, rec |-> Flush(bookings[id], new, now)]

\* BookingRepository.update: None when the id is unknown, else the record
\* with the payload's fields set and the commit's outcome.
BookingRepoUpdate(id, data) ==
    IF id \notin DOMAIN bookings THEN [found |-> FALSE, ok |-> FALSE, rec |-> NoRecord]
    ELSE LET new == ApplyUpdate(bookings[id], data, BookingNullable)
         IN  IF ViolatesNotNull(data, BookingNotNull)
             THEN [found |-> TRUE, ok |-> FALSE, rec |-> bookings[id]]
             ELSE [found |-> TRUE, ok |-> TRUE, rec |-> Flush(bookings[id], new, now)]

\* BookingService.update_booking on the validated body and the route's
\* mapping of its outcome; op names the route that called it.
ServiceUpdateBooking(op, id, body) ==
    LET data == BookingUpdate(body)
        r == BookingRepoUpdate(id, data)
    IN  /\ IF ~r.found
           THEN /\ last' = Response(op, id, NoData, 404, "not_found", NoRecord)
                /\ UNCHANGED <<bookings, now>>
           ELSE IF ~r.ok
           THEN /\ last' = Response(op, id, body, 500, "integrity_error", NoRecord)
                /\ UNCHANGED <<bookings, now>>
           ELSE /\ r.rec # bookings[id] => now < MaxTime
                /\ bookings' = [bookings EXCEPT ![id] = r.rec]
                /\ now' = IF r.rec # bookings[id] THEN now + 1 ELSE now
                /\ last' = Response(op, id, body, 200, "none", NoRecord)
        /\ UNCHANGED <<providers, nextProviderId, nextBookingId, inflight>>

\* PATCH /bookings/{id}
UpdateBooking(id, body) == ServiceUpdateBooking("update_booking", id, body)

\* BookingService.cancel_booking: BookingUpdate(status=BookingStatus.CANCELLED).
CancelData == Payload([status |-> CANCELLED], {})

\* A plausible slip (the docstring's "cannot cancel already completed
\* bookings"): a completed booking is refused.
CancelBookingGuarded(id) ==
    IF id \in DOMAIN bookings /\ bookings[id].status = COMPLETED
    THEN /\ last' = Response("cancel_booking", id, CancelData, 400, "not_cancellable", NoRecord)
         /\ UNCHANGED <<providers, bookings, nextProviderId, nextBookingId, now, inflight>>
    ELSE ServiceUpdateBooking("cancel_booking", id, CancelData)

\* POST /bookings/{id}/cancel
CancelBooking(id) == ServiceUpdateBooking("cancel_booking", id, CancelData)

\* A plausible slip: an idempotent delete, which answers success whether
\* or not the row existed.
DeleteBookingSilent(id) ==
    /\ bookings' = IF id \in DOMAIN bookings THEN Remove(bookings, id) ELSE bookings
    /\ last' = Response("delete_booking", id, NoData, 204, "none", NoRecord)
    /\ UNCHANGED <<providers, nextProviderId, nextBookingId, now, inflight>>

\* BookingService.delete_booking behind DELETE /bookings/{id}.
DeleteBooking(id) ==
    /\ IF id \notin DOMAIN bookings
       THEN /\ last' = Response("delete_booking", id, NoData, 404, "not_found", NoRecord)
            /\ UNCHANGED bookings
       ELSE /\ bookings' = Remove(bookings, id)
            /\ last' = Response("delete_booking", id, NoData, 204, "none", NoRecord)
    /\ UNCHANGED <<providers, nextProviderId, nextBookingId, now, inflight>>

\* A plausible slip: a read with a lazy status refresh, which marks a
\* pending booking whose time has passed as completed and commits.
ReadBookingRefreshing(id) ==
    IF id \in DOMAIN bookings /\ bookings[id].status = PENDING /\ bookings[id].scheduled_at < now
    THEN /\ bookings' = [bookings EXCEPT ![id].status = COMPLETED, ![id].updated_at = now]
         /\ last' = WithResult(Response("get_booking", id, NoData, 200, "none", NoRecord),
                               [bookings[id] EXCEPT !.status = COMPLETED, !.updated_at = now])
         /\ UNCHANGED <<providers, nextProviderId, nextBookingId, now, inflight>>
    ELSE /\ last' = IF id \notin DOMAIN bookings
                    THEN Response("get_booking", id, NoData, 404, "not_found", NoRecord)
                    ELSE WithResult(Response("get_booking", id, NoData, 200, "none", NoRecord),
                                    bookings[id])
         /\ UNCHANGED <<providers, bookings, nextProviderId, nextBookingId, now, inflight>>

\* BookingService.get_booking behind GET /bookings/{id}.
ReadBooking(id) ==
    /\ last' = IF id \notin DOMAIN bookings
               THEN Response("get_booking", id, NoData, 404, "not_found", NoRecord)
               ELSE WithResult(Response("get_booking", id, NoData, 200, "none", NoRecord),
                               bookings[id])
    /\ UNCHANGED <<providers, bookings, nextProviderId, nextBookingId, now, inflight>>

(* --------------------------- specifications --------------------------- *)

\* The ids a request can name: those issued so far and one never issued.
ProviderIds == 1..nextProviderId

BookingIds == 1..nextBookingId

\* init_db() on an empty database.
Init ==
    /\ providers = [x \in {} |-> NoRecord]
    /\ bookings = [x \in {} |-> NoRecord]
    /\ nextProviderId = 1
    /\ nextBookingId = 1
    /\ now = 0
    /\ inflight = <<>>
    /\ last = [op |-> "none", id |-> 0, data |-> NoData, code |-> 0, err |-> "none",
               at |-> 0, provider |-> NoRecord,
               pre |-> [providers |-> [x \in {} |-> NoRecord],
                        bookings |-> [x \in {} |-> NoRecord]]]

\* The PATCH bodies sent to an id: the lookup comes first, so for an id
\* with no row the body plays no part and one body stands for all.
ProviderPatches(id) == IF id \in DOMAIN providers THEN ProviderUpdateInputs ELSE {NoData}

BookingPatches(id) == IF id \in DOMAIN bookings THEN BookingUpdateInputs ELSE {NoData}

\* Requests served one after the other.
Next ==
    \/ \E raw \in ProviderInputs : RegisterProvider(raw)
    \/ \E id \in ProviderIds : \E data \in ProviderPatches(id) : UpdateProvider(id, data)
    \/ \E id \in ProviderIds : DeleteProvider(id)
    \/ \E raw \in CreateInputs(now) : CreateBooking(raw)
    \/ \E id \in BookingIds : \E data \in BookingPatches(id) : UpdateBooking(id, data)
    \/ \E id \in BookingIds : CancelBooking(id)
    \/ \E id \in BookingIds : DeleteBooking(id)
    \/ \E id \in ProviderIds : ReadProvider(id)
    \/ \E id \in BookingIds : ReadBooking(id)

Spec == Init /\ [][Next]_vars

\* One create_booking request in two steps, with provider requests
\* committing between its check and its INSERT.
NextRace ==
    \/ \E raw \in ProviderInputs : RegisterProvider(raw)
    \/ \E id \in ProviderIds : \E data \in ProviderPatches(id) : UpdateProvider(id, data)
    \/ \E id \in ProviderIds : DeleteProvider(id)
    \/ \E raw \in CreateInputs(now) : CreateBookingCheck(raw)
    \/ CreateBookingInsert

SpecRace == Init /\ [][NextRace]_vars

(* ------------------------------- listing ------------------------------ *)

\* The routes' bound on limit: Query(100, ge=1, le=100).
MaxLimit == 100

Min(a, b) == IF a < b THEN a ELSE b

\* A GET /bookings or GET /providers query string: skip, limit and the
\* filters the caller supplied (a filter left out is not in the domain).
Query(skip, limit, filters) == [skip |-> skip, limit |-> limit, filters |-> filters]

\* Query(0, ge=0) and Query(100, ge=1, le=100) on both list routes.
ValidPage(q) == q.skip >= 0 /\ q.limit >= 1 /\ q.limit <= MaxLimit

\* `if provider_id:`, `if status:`, `if from_date:`, `if to_date:` test the
\* value's truth: an int is true unless 0, a BookingStatus member (a str
\* enum with non-empty values) and a datetime are always true.
Truthy(f, v) == IF f = "provider_id" THEN v # 0 ELSE TRUE

\* The filters BookingRepository.list_all adds to the query.
Applied(filters) == {f \in DOMAIN filters : Truthy(f, filters[f])}

\* One query.filter(...) clause.
Clause(b, f, v) ==
    CASE f = "provider_id" -> b.provider_id = v
      [] f = "status"      -> b.status = v
      [] f = "from_date"   -> b.scheduled_at >= v
      [] f = "to_date"     -> b.scheduled_at <= v

\* The ids of the rows the filtered query selects.
Filtered(filters) ==
    {b \in DOMAIN bookings : \A f \in Applied(filters) : Clause(bookings[b], f, filters[f])}

\* The row orders of a set of ids.
Permutations(ids) ==
    {s \in [1..Cardinality(ids) -> ids] : \A i, j \in DOMAIN s : s[i] = s[j] => i = j}

\* A plausible slip: order_by(Booking.scheduled_at.desc()).
OrderByScheduledAtDesc(ids) ==
    {s \in Permutations(ids) :
        \A i, j \in DOMAIN s : i < j => bookings[s[i]].scheduled_at >= bookings[s[j]].scheduled_at}

\* order_by(Booking.scheduled_at): the orders the store may return, rows
\* with equal scheduled_at in any order.
OrderByScheduledAt(ids) ==
    {s \in Permutations(ids) :
        \A i, j \in DOMAIN s : i < j => bookings[s[i]].scheduled_at <= bookings[s[j]].scheduled_at}

\* .offset(skip).limit(limit)
Page(s, skip, limit) == SubSeq(s, skip + 1, Min(skip + limit, Len(s)))

\* The response to a list request: the rows returned, in order.
ListResponse(op, q, code, err, result) ==
    [op |-> op, id |-> 0, data |-> q, code |-> code, err |-> err, at |-> now,
     provider |-> NoRecord, pre |-> Store, result |-> result]

\* GET /bookings: list_bookings, get_bookings and BookingRepository.list_all.
ListBookings(q) ==
    /\ IF ~ValidPage(q)
       THEN last' = ListResponse("list_bookings", q, 422, "validation_error", <<>>)
       ELSE \E s \in OrderByScheduledAt(Filtered(q.filters)) :
               LET page == Page(s, q.skip, q.limit)
               IN  last' = ListResponse("list_bookings", q, 200, "none",
                                        [i \in DOMAIN page |-> bookings[page[i]]])
    /\ UNCHANGED <<providers, bookings, nextProviderId, nextBookingId, now, inflight>>

\* `if sector:` tests the string's truth: the empty string is false.
SectorTruthy(v) == v # <<>>

\* The ids of the rows ProviderRepository.list_all's query selects.
FilteredProviders(filters) ==
    {p \in DOMAIN providers :
        ("sector" \in DOMAIN filters /\ SectorTruthy(filters.sector))
            => providers[p].sector = filters.sector}

\* GET /providers: list_providers, get_providers and
\* ProviderRepository.list_all, which gives the query no order.
ListProviders(q) ==
    /\ IF ~ValidPage(q)
       THEN last' = ListResponse("list_providers", q, 422, "validation_error", <<>>)
       ELSE \E s \in Permutations(FilteredProviders(q.filters)) :
               LET page == Page(s, q.skip, q.limit)
               IN  last' = ListResponse("list_providers", q, 200, "none",
                                        [i \in DOMAIN page |-> providers[page[i]]])
    /\ UNCHANGED <<providers, bookings, nextProviderId, nextBookingId, now, inflight>>

(* ------------------ listing over stores of several rows --------------- *)

\* The most rows of one table in a listed store.
MaxRows == 2

ListSectors == {<<"m">>, <<"r">>}

ListStatuses == {PENDING, CONFIRMED}

ListTimes == {1, 2}

\* The provider ids the listed bookings refer to.
ListProviderIds == {1, 2}

\* A provider row as register_provider left it at time t.
StoredProvider(id, sector, t) == NewProvider(ProviderBody(<<"a">>, sector), id, t)

\* A booking row created at time t and then PATCHed to its status and
\* scheduled_at at t + 1.
StoredBooking(id, p, st, s, t) ==
    [NewBooking(BookingBody(p, s, NULL), id, t) EXCEPT !.status = st, !.updated_at = t + 1]

\* A query parameter: left out, or one of the values.
Optional(S) == {{}} \cup {{v} : v \in S}

\* The filters of a query string, from each parameter's choice.
MakeFilters(c) == [f \in {g \in DOMAIN c : c[g] # {}} |-> CHOOSE v \in c[f] : TRUE]

NoFilters == MakeFilters([provider_id |-> {}])

\* Pages the route refuses: negative skip, limit 0, limit above the bound.
InvalidPages ==
    {Query(0 - 1, 1, NoFilters), Query(0, 0, NoFilters), Query(0, MaxLimit + 1, NoFilters)}

\* GET /bookings queries: every combination of filters (provider_id 0
\* included, an id no row has), on the first page or after one row.
BookingQueries ==
    { Query(sk, li, MakeFilters([provider_id |-> p, status |-> st, from_date |-> f, to_date |-> t])) :
        sk \in {0, 1}, li \in {1, MaxLimit},
        p \in Optional({0} \cup ListProviderIds), st \in Optional({PENDING}),
        f \in Optional(ListTimes), t \in Optional(ListTimes) }
    \cup InvalidPages

\* GET /providers queries: no sector, the empty sector, or a sector.
ProviderQueries ==
    { Query(sk, li, MakeFilters([sector |-> sec])) :
        sk \in {0, 1}, li \in {1, MaxLimit}, sec \in Optional({<<>>} \cup ListSectors) }
    \cup InvalidPages

\* A store after some history of requests: providers of either sector and
\* no booking, or providers and up to MaxRows bookings.
InitList ==
    /\ inflight = <<>>
    /\ last = [op |-> "none", id |-> 0, data |-> NoData, code |-> 0, err |-> "none",
               at |-> 0, provider |-> NoRecord,
               pre |-> [providers |-> [x \in {} |-> NoRecord],
                        bookings |-> [x \in {} |-> NoRecord]]]
    /\ \/ \E k \in 0..MaxRows : \E sec \in [1..k -> ListSectors] :
             /\ providers = [i \in 1..k |-> StoredProvider(i, sec[i], i - 1)]
             /\ bookings = [x \in {} |-> NoRecord]
             /\ nextProviderId = k + 1
             /\ nextBookingId = 1
             /\ now = k
       \/ \E n \in 1..MaxRows :
          \E p \in [1..n -> ListProviderIds], st \in [1..n -> ListStatuses], s \in [1..n -> ListTimes] :
             /\ providers = [i \in 1..MaxRows |-> StoredProvider(i, <<"m">>, i - 1)]
             /\ bookings = [i \in 1..n |->
                              StoredBooking(i, p[i], st[i], s[i], MaxRows + 2 * (i - 1))]
             /\ nextProviderId = MaxRows + 1
             /\ nextBookingId = n + 1
             /\ now = MaxRows + 2 * n

\* No request has been answered yet.
Unanswered == last.op = "none"

\* One list request against the store.  A list request leaves the store as
\* it is, so what a later one returns does not depend on the earlier ones.
NextList ==
    \/ \E q \in BookingQueries : Unanswered /\ ListBookings(q)
    \/ \E q \in ProviderQueries : Unanswered /\ ListProviders(q)

SpecList == InitList /\ [][NextList]_vars

(* ------------------------- sessions per request ----------------------- *)

\* The most requests in one behaviour of the session specification.
MaxRequests == 3

\* How a route handler can end: it returns, a service raises ValueError
\* (which the route turns into an HTTPException), or anything else raises.
HandlerExits == {"returned", "domain_error", "crashed"}

\* SessionLocal(): every call makes a session object of its own.
NewSession(reqs) == Len(reqs) + 1

\* A plausible slip: db.close() after the yield, outside any finally, so it
\* runs only when the handler returned.
ClosesOnReturnOnly(exit) == exit = "returned"

\* try: yield db / finally: db.close() closes however the handler ended.
ClosesOn(exit) == TRUE

\* get_db up to its yield: the request acquires its session and its handler
\* starts.  In this specification inflight is the table of the requests
\* begun so far, one entry each: its session, where it stands, how its
\* handler ended and how many times its session was closed.
BeginRequest ==
    /\ Len(inflight) < MaxRequests
    /\ inflight' = Append(inflight, [session |-> NewSession(inflight), pc |-> "handler",
                                     exit |-> "none", closes |-> 0])
    /\ UNCHANGED <<providers, bookings, nextProviderId, nextBookingId, now, last>>

\* The handler of request i ends, in one of the three ways.
HandlerExit(i) ==
    /\ i \in DOMAIN inflight
    /\ inflight[i].pc = "handler"
    /\ \E x \in HandlerExits :
          inflight' = [inflight EXCEPT ![i].pc = "finally", ![i].exit = x]
    /\ UNCHANGED <<providers, bookings, nextProviderId, nextBookingId, now, last>>

\* get_db after its yield, for request i.
CloseSession(i) ==
    /\ i \in DOMAIN inflight
    /\ inflight[i].pc = "finally"
    /\ inflight' = [inflight EXCEPT
                      ![i].pc = "done",
                      ![i].closes = IF ClosesOn(inflight[i].exit) THEN @ + 1 ELSE @]
    /\ UNCHANGED <<providers, bookings, nextProviderId, nextBookingId, now, last>>

NextSession ==
    \/ BeginRequest
    \/ \E i \in 1..MaxRequests : HandlerExit(i)
    \/ \E i \in 1..MaxRequests : CloseSession(i)

\* A handler ends (no operation blocks for ever) and the server then
\* resumes the dependency's generator.
SpecSession ==
    /\ Init
    /\ [][NextSession]_vars
    /\ \A i \in 1..MaxRequests : WF_vars(HandlerExit(i)) /\ WF_vars(CloseSession(i))

(* ------------------------- concurrent updates ------------------------- *)

\* Update requests in flight at once on one bookings table.  Each request
\* works in its own session: get_by_id loads the row into the session,
\* setattr changes the loaded object, and commit sends one UPDATE that sets
\* the attributes whose value differs from the loaded one, on the row as it
\* stands in the table at that moment (READ COMMITTED).
MaxUpdates == 2

UpdateRaceInputs ==
    { NoData,
      Payload([status |-> CONFIRMED], {}),
      Payload([status |-> PENDING], {}),
      Payload([notes |-> "n"], {}),
      Payload([scheduled_at |-> 0], {"notes"}),
      Payload([status |-> CANCELLED, client_phone |-> "777"], {}) }

\* The session's object after the setattr loop.
SessionObject(e) == ApplyUpdate(e.loaded, e.data, BookingNullable)

\* A plausible slip: a write-back of the whole loaded object (merge of a
\* detached copy, or an UPDATE listing every column).
UpdateColumnsWholeRow(e) == (DOMAIN e.loaded) \ {"id", "updated_at"}

\* The columns of the UPDATE's SET clause: the attributes with a net change.
UpdateColumns(e) == {f \in DOMAIN e.loaded : SessionObject(e)[f] # e.loaded[f]}

\* The row after the UPDATE: the SET columns from the session's object, the
\* others as the table holds them, and onupdate's clock reading.
UpdatedRow(cur, e, t) ==
    [f \in DOMAIN cur |->
        IF f \in UpdateColumns(e) THEN SessionObject(e)[f]
        ELSE IF f = "updated_at" /\ UpdateColumns(e) # {} THEN t
        ELSE cur[f]]

\* A table holding one booking of one active provider, as earlier requests
\* left it.
InitUpdateRace ==
    /\ providers = [x \in {1} |-> StoredProvider(1, <<"m">>, 0)]
    /\ \E st \in BookingStatus : \E n \in {NULL, "n"} :
          bookings = [x \in {1} |-> [StoredBooking(1, 1, st, 3, 1) EXCEPT !.notes = n]]
    /\ nextProviderId = 2
    /\ nextBookingId = 2
    /\ now = 3
    /\ inflight = <<>>
    /\ last = [op |-> "none", id |-> 0, data |-> NoData, code |-> 0, err |-> "none",
               at |-> 0, provider |-> NoRecord,
               pre |-> [providers |-> [x \in {} |-> NoRecord],
                        bookings |-> [x \in {} |-> NoRecord]]]

\* BookingRepository.update up to the setattr loop: the lookup, and None
\* (answered 404) when there is no row.
BeginUpdate(id, body) ==
    /\ Len(inflight) < MaxUpdates
    /\ inflight' = Append(inflight,
          IF id \in DOMAIN bookings
          THEN [id |-> id, data |-> BookingUpdate(body), loaded |-> bookings[id],
                pc |-> "loaded", code |-> 0]
          ELSE [id |-> id, data |-> BookingUpdate(body), loaded |-> NoRecord,
                pc |-> "done", code |-> 404])
    /\ UNCHANGED <<providers, bookings, nextProviderId, nextBookingId, now, last>>

\* BookingRepository.update from db.commit() on, and the route's answer.
CommitUpdate(i) ==
    LET e == inflight[i]
    IN  /\ e.pc = "loaded"
        /\ IF ViolatesNotNull(e.data, BookingNotNull)
           THEN /\ inflight' = [inflight EXCEPT ![i].pc = "done", ![i].code = 500]
                /\ UNCHANGED <<bookings, now>>
           ELSE /\ bookings' = [bookings EXCEPT ![e.id] = UpdatedRow(bookings[e.id], e, now)]
                /\ now' = IF UpdateColumns(e) # {} THEN now + 1 ELSE now
                /\ inflight' = [inflight EXCEPT ![i].pc = "done", ![i].code = 200]
        /\ UNCHANGED <<providers, nextProviderId, nextBookingId, last>>

\* The bodies sent to an id; for an id with no row one body stands for all.
UpdateRacePatches(id) == IF id \in DOMAIN bookings THEN UpdateRaceInputs ELSE {NoData}

NextUpdateRace ==
    \/ \E id \in BookingIds : \E body \in UpdateRacePatches(id) : BeginUpdate(id, body)
    \/ \E i \in DOMAIN inflight : CommitUpdate(i)

SpecUpdateRace == InitUpdateRace /\ [][NextUpdateRace]_vars

(* -------------------- one request against any store ------------------- *)

\* A store after some history of requests: up to MaxRows providers, each
\* still active or deactivated since, and up to MaxRows pending bookings of
\* theirs.  Provider i was registered at i - 1 and, if deactivated, PATCHed
\* at k + i - 1; the bookings were created after that.
InitFrame ==
    /\ inflight = <<>>
    /\ last = [op |-> "none", id |-> 0, data |-> NoData, code |-> 0, err |-> "none",
               at |-> 0, provider |-> NoRecord,
               pre |-> [providers |-> [x \in {} |-> NoRecord],
                        bookings |-> [x \in {} |-> NoRecord]]]
    /\ \E k \in 0..MaxRows : \E act \in [1..k -> BOOLEAN] :
       \E n \in 0..(IF k = 0 THEN 0 ELSE MaxRows) : \E p \in [1..n -> 1..k] :
          /\ providers = [i \in 1..k |->
                IF act[i] THEN StoredProvider(i, <<"m">>, i - 1)
                ELSE [StoredProvider(i, <<"m">>, i - 1)
                        EXCEPT !.is_active = FALSE, !.updated_at = k + i - 1]]
          /\ bookings = [i \in 1..n |->
                StoredBooking(i, p[i], PENDING, 2 * k + 2 * i, 2 * k + 2 * (i - 1))]
          /\ nextProviderId = k + 1
          /\ nextBookingId = n + 1
          /\ now = 2 * k + 2 * n

\* One request of any kind against the store.
NextFrame ==
    \/ \E raw \in ProviderInputs : Unanswered /\ RegisterProvider(raw)
    \/ \E id \in ProviderIds : \E data \in ProviderPatches(id) : Unanswered /\ UpdateProvider(id, data)
    \/ \E id \in ProviderIds : Unanswered /\ DeleteProvider(id)
    \/ \E raw \in CreateInputs(now) : Unanswered /\ CreateBooking(raw)
    \/ \E id \in BookingIds : \E data \in BookingPatches(id) : Unanswered /\ UpdateBooking(id, data)
    \/ \E id \in BookingIds : Unanswered /\ CancelBooking(id)
    \/ \E id \in BookingIds : Unanswered /\ DeleteBooking(id)
    \/ \E id \in ProviderIds : Unanswered /\ ReadProvider(id)
    \/ \E id \in BookingIds : Unanswered /\ ReadBooking(id)
    \/ \E q \in BookingQueries : Unanswered /\ ListBookings(q)
    \/ \E q \in ProviderQueries : Unanswered /\ ListProviders(q)

SpecFrame == InitFrame /\ [][NextFrame]_vars

(* ------------------------------- claims ------------------------------- *)

\* The domain errors create_booking raises (ValueError).
RuleViolations == {"provider_not_found", "provider_inactive", "not_in_future"}

CreateAnswered == last.op = "create_booking"

CreateSucceeded == CreateAnswered /\ last.code = 201

\* The provider id the latest create_booking body named, and whether the
\* store the request ran against had it, and had it active.
BodyProviderId == last.data.provider_id

BodyProviderKnown == BodyProviderId \in DOMAIN last.pre.providers

BodyProviderActive ==
    BodyProviderKnown /\ last.pre.providers[BodyProviderId].is_active

CreateRejected ==
    /\ last.code = 400
    /\ last.err \in RuleViolations
    /\ bookings = last.pre.bookings

\* C1: a create_booking whose scheduled_at is at or before the clock reading
\* it is compared with (equality included) fails with a rule violation and
\* leaves the bookings as they were.
C1_NotAfterNowRejected ==
    (CreateAnswered /\ last.data.scheduled_at <= last.at) => CreateRejected

\* C2: a booking persisted by a successful create_booking is a new row whose
\* status is pending, whatever status the body carried.
C2_CreatedPending ==
    CreateSucceeded =>
        /\ last.id \notin DOMAIN last.pre.bookings
        /\ last.id \in DOMAIN bookings
        /\ bookings[last.id].status = PENDING

C2_Witness ==
    /\ CreateSucceeded
    /\ last.data.status = CONFIRMED
    /\ bookings[last.id].status = PENDING

\* C3: create_booking reports its first failing rule: unknown provider, then
\* inactive provider, then the time rule, which is thus reported only for a
\* provider that exists and is active.
C3_FirstFailureWins ==
    CreateAnswered =>
        /\ ~BodyProviderKnown => last.err = "provider_not_found"
        /\ (BodyProviderKnown /\ ~BodyProviderActive) => last.err = "provider_inactive"
        /\ last.err = "not_in_future" => BodyProviderActive

C3_Witness ==
    /\ CreateAnswered
    /\ last.err = "provider_inactive"
    /\ last.data.scheduled_at < last.at

\* C4: a create_booking naming a provider id with no row fails with a rule
\* violation, answered 400, and persists no booking.
C4_UnknownProviderRejected ==
    (CreateAnswered /\ ~BodyProviderKnown) => CreateRejected

C4_Witness ==
    /\ CreateAnswered
    /\ ~BodyProviderKnown
    /\ last.data.scheduled_at > last.at
    /\ last.code = 400
    /\ last.err = "provider_not_found"

\* C5: a create_booking naming a stored provider with is_active = false fails
\* with a rule violation and persists no booking, in every state in which
\* the provider is inactive.
C5_InactiveProviderRejected ==
    (CreateAnswered /\ BodyProviderKnown /\ ~BodyProviderActive) => CreateRejected

\* The provider was deactivated by update_provider, and the body is valid
\* but for that.
C5_Witness ==
    /\ CreateAnswered
    /\ BodyProviderKnown
    /\ ~BodyProviderActive
    /\ last.pre.providers[BodyProviderId].updated_at > last.pre.providers[BodyProviderId].created_at
    /\ last.data.scheduled_at > last.at
    /\ last.err = "provider_inactive"

\* C6 (as claimed): a booking is persisted only if its provider exists and is
\* active in the store at the moment of the INSERT.
C6_ActiveAtInsert == CreateSucceeded => BodyProviderActive

\* C6 (amended): a booking is persisted only if its provider existed and was
\* active when create_booking read it, and still exists at the moment of the
\* INSERT; it may have been deactivated in between.
C6_ActiveAtCheck ==
    CreateSucceeded =>
        /\ last.provider.id = BodyProviderId
        /\ last.provider.is_active
        /\ BodyProviderKnown

\* A booking inserted for a provider deactivated after the check.
C6_Witness ==
    /\ CreateSucceeded
    /\ BodyProviderKnown
    /\ ~BodyProviderActive
    /\ last.provider.is_active

UpdateSucceeded(op) == last.op = op /\ last.code = 200

\* Every field of every row of `table` equals its value in `before`, but
\* for the fields of row id that the body set, and that row's updated_at.
OnlyBodyFieldsChanged(table, before, id, data) ==
    /\ DOMAIN table = DOMAIN before
    /\ \A r \in DOMAIN table : \A f \in DOMAIN table[r] :
          (r # id \/ f \notin FieldsSet(data) \cup {"updated_at"})
              => table[r][f] = before[r][f]

\* C7: a successful update_booking or update_provider changes only the
\* fields present in the body: the target's other fields (updated_at
\* excepted) and every other record are as before.
C7_UpdateFrame ==
    /\ UpdateSucceeded("update_booking") =>
          /\ OnlyBodyFieldsChanged(bookings, last.pre.bookings, last.id, last.data)
          /\ providers = last.pre.providers
    /\ UpdateSucceeded("update_provider") =>
          /\ OnlyBodyFieldsChanged(providers, last.pre.providers, last.id, last.data)
          /\ bookings = last.pre.bookings

\* An update that changed the row while a field it did not name held a
\* value of its own.
C7_Witness ==
    /\ UpdateSucceeded("update_booking")
    /\ bookings[last.id] # last.pre.bookings[last.id]
    /\ "notes" \notin FieldsSet(last.data)
    /\ bookings[last.id].notes = "n"

\* C8: after every successful update_booking or update_provider, for any
\* body the schema accepts, the target's updated_at is greater than before.
C8_UpdatedAtIncreases ==
    /\ UpdateSucceeded("update_booking") =>
          bookings[last.id].updated_at > last.pre.bookings[last.id].updated_at
    /\ UpdateSucceeded("update_provider") =>
          providers[last.id].updated_at > last.pre.providers[last.id].updated_at

CancelAnswered == last.op = "cancel_booking"

\* C9: cancel_booking on an existing booking succeeds from every status and
\* leaves status = cancelled, the first time and every further time.
C9_CancelAlways ==
    (CancelAnswered /\ last.id \in DOMAIN last.pre.bookings) =>
        /\ last.code = 200
        /\ bookings[last.id].status = CANCELLED

C9_Witness ==
    /\ CancelAnswered
    /\ last.id \in DOMAIN last.pre.bookings
    /\ last.pre.bookings[last.id].status = COMPLETED
    /\ last.code = 200
    /\ bookings[last.id].status = CANCELLED

\* C10: cancel_booking(id) does what update_booking(id, {status: cancelled})
\* does from the same state (not found, or the row with status cancelled and
\* nothing else changed), and a successful cancel refreshes updated_at, also
\* on a booking that was cancelled already.
C10_CancelIsUpdateAndRefreshes ==
    CancelAnswered =>
        IF last.id \notin DOMAIN last.pre.bookings
        THEN last.code = 404 /\ bookings = last.pre.bookings
        ELSE /\ last.code = 200
             /\ OnlyBodyFieldsChanged(bookings, last.pre.bookings, last.id, CancelData)
             /\ bookings[last.id].status = CANCELLED
             /\ bookings[last.id].updated_at > last.pre.bookings[last.id].updated_at

\* The body of the latest update_booking names status alone.
StatusOnlyBody == DOMAIN last.data.vals = {"status"} /\ last.data.nulls = {}

ListAnswered(op) == last.op = op /\ last.code = 200

\* The rows of the latest list response, as a set.
ResultRows == {last.result[i] : i \in DOMAIN last.result}

\* The page of the latest list request holds every selected row.
WholeListAsked == last.data.skip = 0 /\ last.data.limit >= Cardinality(DOMAIN bookings \cup DOMAIN providers)

\* C12: GET /bookings returns exactly the stored bookings that satisfy all
\* the supplied filters together (provider_id and status by equality,
\* from_date <= scheduled_at <= to_date); a filter left out restricts
\* nothing.
C12_ExactlyTheMatches ==
    (ListAnswered("list_bookings") /\ WholeListAsked) =>
        LET f == last.data.filters
        IN  ResultRows =
              { bookings[b] : b \in
                  { x \in DOMAIN bookings :
                      /\ "provider_id" \in DOMAIN f => bookings[x].provider_id = f.provider_id
                      /\ "status" \in DOMAIN f => bookings[x].status = f.status
                      /\ "from_date" \in DOMAIN f => bookings[x].scheduled_at >= f.from_date
                      /\ "to_date" \in DOMAIN f => bookings[x].scheduled_at <= f.to_date } }

Max(a, b) == IF a > b THEN a ELSE b

\* C13: GET /bookings returns rows in ascending scheduled_at order, and they
\* are the slice of the selected rows in that order that leaves out the
\* first skip rows and holds at most limit rows; the route answers only
\* requests with skip >= 0 and limit in 1..100.
C13_OrderedSlice ==
    last.op = "list_bookings" =>
        LET res == last.result
            q == last.data
            F == {bookings[b] : b \in Filtered(q.filters)}
            rest == F \ ResultRows
        IN  /\ last.code = 200 <=> (q.skip >= 0 /\ q.limit >= 1 /\ q.limit <= 100)
            /\ last.code # 200 => (last.code = 422 /\ res = <<>>)
            /\ last.code = 200 =>
                /\ \A i, j \in DOMAIN res : i < j => res[i].scheduled_at <= res[j].scheduled_at
                /\ Cardinality(ResultRows) = Len(res)
                /\ ResultRows \subseteq F
                /\ Len(res) = Min(q.limit, Max(Cardinality(F) - q.skip, 0))
                /\ \E S \in SUBSET rest :
                      /\ Cardinality(S) = Min(q.skip, Cardinality(F))
                      /\ \A b \in S, r \in ResultRows : b.scheduled_at <= r.scheduled_at
                      /\ \A b \in rest \ S, r \in ResultRows : b.scheduled_at >= r.scheduled_at

\* Two selected rows at different times, a status filter, and a page of one
\* row: the earlier row is returned and the later one is cut off.
C13_Witness ==
    /\ ListAnswered("list_bookings")
    /\ "status" \in DOMAIN last.data.filters
    /\ last.data.skip = 0
    /\ last.data.limit = 1
    /\ Cardinality(Filtered(last.data.filters)) = 2
    /\ Len(last.result) = 1
    /\ \E b \in Filtered(last.data.filters) :
          bookings[b].scheduled_at > last.result[1].scheduled_at

\* C20: GET /providers with a sector returns exactly the stored providers
\* of that sector, and with no sector the providers of every sector.
C20_ExactlyTheSector ==
    (ListAnswered("list_providers") /\ WholeListAsked) =>
        LET f == last.data.filters
        IN  ResultRows =
              { providers[p] : p \in
                  { x \in DOMAIN providers :
                      "sector" \in DOMAIN f => providers[x].sector = f.sector } }


\* A string that is empty or holds only spaces.
Blank(s) == \A i \in DOMAIN s : s[i] = " "

\* C16: register_provider fails with a rule violation and persists no
\* provider when name or sector is empty or whitespace-only; otherwise it
\* persists exactly one new provider, with the supplied fields and
\* is_active = true.
C16_RegisterRules ==
    last.op = "register_provider" =>
        /\ bookings = last.pre.bookings
        /\ IF Blank(last.data.name) \/ Blank(last.data.sector)
           THEN /\ last.code = 400
                /\ last.err \in {"name_empty", "sector_empty"}
                /\ providers = last.pre.providers
           ELSE /\ last.code = 201
                /\ last.id \notin DOMAIN last.pre.providers
                /\ DOMAIN providers = DOMAIN last.pre.providers \cup {last.id}
                /\ \A p \in DOMAIN last.pre.providers : providers[p] = last.pre.providers[p]
                /\ \A f \in ProviderCreateFields : providers[last.id][f] = last.data[f]
                /\ providers[last.id].is_active

\* A whitespace-only sector behind a proper name, refused.
C16_Witness ==
    /\ last.op = "register_provider"
    /\ ~Blank(last.data.name)
    /\ last.data.sector = <<" ">>
    /\ last.code = 400
    /\ providers = last.pre.providers


\* The latest request was `op` on an id with a row in `table` of the store
\* it ran against.
OnStored(op, table) == last.op = op /\ last.id \in DOMAIN table

OnMissing(op, table) == last.op = op /\ last.id \notin DOMAIN table

StoreUnchanged == providers = last.pre.providers /\ bookings = last.pre.bookings

\* C14: delete_booking and delete_provider on an id with no record end in
\* not-found (404), never in success, and leave the store unchanged; on an
\* id with a record they remove exactly that record and succeed (204).
C14_DeleteOutcomes ==
    /\ OnMissing("delete_booking", last.pre.bookings) =>
          (last.code = 404 /\ last.err = "not_found" /\ StoreUnchanged)
    /\ OnMissing("delete_provider", last.pre.providers) =>
          (last.code = 404 /\ last.err = "not_found" /\ StoreUnchanged)
    /\ OnStored("delete_booking", last.pre.bookings) =>
          /\ last.code = 204
          /\ bookings = Remove(last.pre.bookings, last.id)
          /\ providers = last.pre.providers
    /\ OnStored("delete_provider", last.pre.providers) =>
          /\ last.code = 204
          /\ providers = Remove(last.pre.providers, last.id)
          /\ bookings = last.pre.bookings


\* C15: get, update and cancel on an id with no record (booking or provider)
\* raise not-found, answered 404, and leave the store unchanged; on an id
\* with a record they return that record.
C15_ByIdOutcomes ==
    /\ \A op \in {"get_booking", "update_booking", "cancel_booking"} :
          /\ OnMissing(op, last.pre.bookings) =>
                (last.code = 404 /\ last.err = "not_found" /\ StoreUnchanged)
          /\ OnStored(op, last.pre.bookings) =>
                (last.code = 200 /\ last.id \in DOMAIN bookings)
    /\ \A op \in {"get_provider", "update_provider"} :
          /\ OnMissing(op, last.pre.providers) =>
                (last.code = 404 /\ last.err = "not_found" /\ StoreUnchanged)
          /\ OnStored(op, last.pre.providers) =>
                (last.code = 200 /\ last.id \in DOMAIN providers)
    /\ OnStored("get_booking", last.pre.bookings) =>
          (last.result = bookings[last.id] /\ StoreUnchanged)
    /\ OnStored("get_provider", last.pre.providers) =>
          (last.result = providers[last.id] /\ StoreUnchanged)


\* C19: delete_provider on an existing provider succeeds whether or not
\* bookings reference it, removes the provider alone and leaves every
\* booking, those referencing it included, as it was.
C19_DeleteProviderAlone ==
    OnStored("delete_provider", last.pre.providers) =>
        /\ last.code = 204
        /\ last.id \notin DOMAIN providers
        /\ \A p \in DOMAIN last.pre.providers \ {last.id} :
              p \in DOMAIN providers /\ providers[p] = last.pre.providers[p]
        /\ bookings = last.pre.bookings


\* The domain errors of register_provider and create_booking.
CreationErrors == RuleViolations \cup {"name_empty", "sector_empty"}

CreationOps == {"register_provider", "create_booking"}

DeletionOps == {"delete_provider", "delete_booking"}

ByIdOps ==
    {"get_provider", "update_provider", "get_booking", "update_booking", "cancel_booking"}
        \cup DeletionOps

\* C17: a rule violation in provider registration or booking creation
\* (unknown provider included) is answered 400; not-found in get, update,
\* cancel or delete is answered 404; a successful creation is answered 201
\* with the created record; a successful deletion is answered 204; and a
\* domain error is answered with no other code.
C17_StatusCodes ==
    /\ last.err \in CreationErrors <=> (last.op \in CreationOps /\ last.code = 400)
    /\ last.err = "not_found" <=> (last.op \in ByIdOps /\ last.code = 404)
    /\ (last.op = "register_provider" /\ last.err = "none") =>
          (last.code = 201 /\ last.id \in DOMAIN providers \ DOMAIN last.pre.providers)
    /\ (last.op = "create_booking" /\ last.err = "none") =>
          (last.code = 201 /\ last.id \in DOMAIN bookings \ DOMAIN last.pre.bookings)
    /\ (last.op \in DeletionOps /\ last.err = "none") => last.code = 204

\* An unknown provider in an otherwise valid create_booking, answered 400.
C17_Witness ==
    /\ last.op = "create_booking"
    /\ last.err = "provider_not_found"
    /\ last.code = 400
    /\ last.data.scheduled_at > last.at
    /\ DOMAIN last.pre.providers # {}


\* Request i has acquired its session.
Acquired(i) == i \in DOMAIN inflight

\* The session of request i has been closed.
Closed(i) == i \in DOMAIN inflight /\ inflight[i].closes = 1

\* C18: every session get_db acquires for a request is eventually closed,
\* exactly once, however the request ends (return, domain error or any
\* other exception), and no two requests use the same session.
C18_SessionClosedOnce ==
    /\ [](\A i \in DOMAIN inflight :
            /\ inflight[i].closes <= 1
            /\ inflight[i].pc = "done" <=> inflight[i].closes = 1)
    /\ [](\A i, j \in DOMAIN inflight : i # j => inflight[i].session # inflight[j].session)
    /\ \A i \in 1..MaxRequests : Acquired(i) ~> Closed(i)

\* A request whose handler raised something other than a domain error has
\* its session closed while a later request, on another session, is still
\* in its handler.
C18_Witness ==
    \E i, j \in DOMAIN inflight :
        /\ i < j
        /\ inflight[i].exit = "crashed"
        /\ inflight[i].pc = "done"
        /\ inflight[i].closes = 1
        /\ inflight[j].pc = "handler"
        /\ inflight[j].session # inflight[i].session


\* C21: an update tells an omitted field from a field supplied as null: the
\* omitted field keeps its stored value, the field supplied as null is
\* written as null and the update succeeds.
C21_OmittedOrNull ==
    /\ OnStored("update_booking", last.pre.bookings) =>
          /\ last.data.nulls # {} =>
                (last.code = 200 /\ \A f \in last.data.nulls : bookings[last.id][f] = NULL)
          /\ \A f \in BookingUpdateFields \ FieldsSet(last.data) :
                bookings[last.id][f] = last.pre.bookings[last.id][f]
    /\ OnStored("update_provider", last.pre.providers) =>
          /\ last.data.nulls # {} =>
                (last.code = 200 /\ \A f \in last.data.nulls : providers[last.id][f] = NULL)
          /\ \A f \in ProviderUpdateFields \ FieldsSet(last.data) :
                providers[last.id][f] = last.pre.providers[last.id][f]


\* C23: after any sequence of register_provider and update_provider calls,
\* every stored provider has a name and a sector that are not blank.
C23_StoredProvidersNotBlank ==
    \A p \in DOMAIN providers :
        ~Blank(providers[p].name) /\ ~Blank(providers[p].sector)


\* The columns no booking update may touch.
BookingIdentity == {"id", "provider_id", "created_at"}

\* C24: a booking's id, provider_id and created_at never change:
\* update_booking, with any body, and cancel_booking leave all three as
\* they were.
C24_IdentityKept ==
    (last.op \in {"update_booking", "cancel_booking"} /\ last.id \in DOMAIN last.pre.bookings) =>
        /\ last.id \in DOMAIN bookings
        /\ \A f \in BookingIdentity : bookings[last.id][f] = last.pre.bookings[last.id][f]

\* A successful update that changed the row while its body carried, for
\* each of the three columns, a value other than the stored one.
C24_Witness ==
    /\ UpdateSucceeded("update_booking")
    /\ bookings[last.id] # last.pre.bookings[last.id]
    /\ BookingIdentity \subseteq DOMAIN last.data.vals
    /\ \A f \in BookingIdentity : last.data.vals[f] # last.pre.bookings[last.id][f]


\* The provider the target booking of the latest request referred to, as
\* the request found it.
TargetProvider == last.pre.providers[last.pre.bookings[last.id].provider_id]

\* The body of the latest update puts no null on a NOT NULL column.
BodyStorable == last.data.nulls \cap BookingNotNull = {}

\* C25: update_booking and cancel_booking re-check none of the creation
\* rules: on an existing booking neither ends in a rule violation, both
\* succeed when the booking's provider has been deactivated, and
\* update_booking succeeds and stores the new scheduled_at when it is not
\* in the future.
C25_NoRecheck ==
    /\ last.op \in {"update_booking", "cancel_booking"} =>
          last.err \notin RuleViolations /\ last.code # 400
    /\ OnStored("cancel_booking", last.pre.bookings) => last.code = 200
    /\ (OnStored("update_booking", last.pre.bookings) /\ BodyStorable) =>
          /\ last.code = 200
          /\ "scheduled_at" \in DOMAIN last.data.vals =>
                bookings[last.id].scheduled_at = last.data.vals.scheduled_at

\* A booking of a deactivated provider moved to a scheduled_at in the past.
C25_Witness ==
    /\ UpdateSucceeded("update_booking")
    /\ ~TargetProvider.is_active
    /\ "scheduled_at" \in DOMAIN last.data.vals
    /\ last.data.vals.scheduled_at < last.at
    /\ last.pre.bookings[last.id].scheduled_at # last.data.vals.scheduled_at
    /\ bookings[last.id].scheduled_at < now


\* The ids the sequence has issued whose row is no longer stored: rows
\* leave a table by a successful delete only, and the sequence never
\* issues an id twice.
DeletedBookings == (1..(nextBookingId - 1)) \ DOMAIN bookings

DeletedProviders == (1..(nextProviderId - 1)) \ DOMAIN providers

BookingByIdOps == {"get_booking", "update_booking", "cancel_booking", "delete_booking"}

ProviderByIdOps == {"get_provider", "update_provider", "delete_provider"}

NotFoundAnswer(r) == r.code = 404 /\ r.err = "not_found"

\* C26: after a successful delete_booking(id) or delete_provider(id), every
\* later get, update, cancel or delete addressed to that id ends in
\* not-found, a second delete included; no record takes that id again.
C26_DeletedStaysNotFound ==
    [][ /\ \A id \in DeletedBookings :
              /\ id \in DeletedBookings'
              /\ (last'.op \in BookingByIdOps /\ last'.id = id) => NotFoundAnswer(last')
        /\ \A id \in DeletedProviders :
              /\ id \in DeletedProviders'
              /\ (last'.op \in ProviderByIdOps /\ last'.id = id) => NotFoundAnswer(last')
        /\ (last'.op = "delete_booking" /\ last'.code = 204) => last'.id \in DeletedBookings'
        /\ (last'.op = "delete_provider" /\ last'.code = 204) => last'.id \in DeletedProviders'
      ]_vars

\* A second delete of a booking id that was deleted before.
C26_Witness ==
    /\ last.op = "delete_booking"
    /\ last.id \in DeletedBookings
    /\ last.id \notin DOMAIN last.pre.bookings
    /\ NotFoundAnswer(last)


\* Every update request of the race has been answered.
AllUpdatesDone ==
    /\ Len(inflight) >= 2
    /\ \A i \in DOMAIN inflight : inflight[i].pc = "done"

\* The requests that succeeded and whose body named field f.
Naming(f) == {i \in DOMAIN inflight : inflight[i].code = 200 /\ f \in FieldsSet(inflight[i].data)}

\* C22: concurrent update requests on the same booking whose bodies name
\* disjoint sets of fields both take effect in every interleaving: once all
\* are answered, a field named by one request alone holds the value that
\* request wrote, and a field no request named holds the value every
\* request loaded.
C22_DisjointUpdatesBothApply ==
    AllUpdatesDone =>
        \A f \in BookingUpdateFields \cup BookingIdentity :
            /\ \A i \in Naming(f) :
                  Naming(f) = {i} => bookings[inflight[i].id][f] = SessionObject(inflight[i])[f]
            /\ Naming(f) = {} =>
                  \A i \in DOMAIN inflight :
                      inflight[i].code = 200 => bookings[inflight[i].id][f] = inflight[i].loaded[f]

\* Two requests that loaded the same version of the row, named disjoint
\* fields, and each changed a field.
C22_Witness ==
    /\ AllUpdatesDone
    /\ inflight[1].code = 200 /\ inflight[2].code = 200
    /\ inflight[1].loaded = inflight[2].loaded
    /\ FieldsSet(inflight[1].data) \cap FieldsSet(inflight[2].data) = {}
    /\ UpdateColumns(inflight[1]) # {} /\ UpdateColumns(inflight[2]) # {}


DomainErrors == CreationErrors \cup {"not_found"}

ReadOps == {"get_provider", "get_booking", "list_providers", "list_bookings"}

\* C27: every operation that ends in a domain error (a rule violation or
\* not-found) and every read (get, list) leaves the whole store unchanged:
\* the same providers and bookings, with the same field values.
C27_ErrorsAndReadsKeepStore ==
    (last.err \in DomainErrors \/ last.op \in ReadOps) => StoreUnchanged

\* A create_booking refused for its deactivated provider, against a store
\* that holds bookings.
C27_Witness ==
    /\ last.op = "create_booking"
    /\ last.err = "provider_inactive"
    /\ DOMAIN last.pre.bookings # {}
    /\ StoreUnchanged

====
